---- MODULE Spec2Model ----
(***************************************************************************)
(* Model of tools/merge_files.py: merge_files(source_file_path,            *)
(* target_file_path) splices the part of the source header that follows    *)
(* the json include into the single-include header, right after the        *)
(* author banner.  Files are sequences of characters; a text-mode read     *)
(* translates line endings and a text-mode write emits os.linesep.         *)
(***************************************************************************)
EXTENDS Integers, Sequences, FiniteSets, TLC

VARIABLES fs, last, streak

vars == <<fs, last, streak>>

\* ---------------------------------------------------------------- literals
LF == "\n"
CR == "\r"

\* '#include <nlohmann/json.hpp>'  (merge_files.py:8)
IncludeToken ==
  <<"#", "i", "n", "c", "l", "u", "d", "e", " ", "<", "n", "l", "o", "h", "m", "a", "n", "n", "/", "j", "s", "o", "n", ".", "h", "p", "p", ">">>

\* '#include <nlohmann/json.hpp>\n'  (merge_files.py:12)
IncludeLine == IncludeToken \o <<LF>>

\* The banner's two lines, without the line breaks around them.
BannerLine1 ==
  <<"/", "/", " ", "L", "u", "n", "a", "r", "E", "C", "L", " ", "(", "M", "i", "n", "s", "e", "o", "k", " ", "K", "i", "m", ")">>

BannerLine2 ==
  <<"/", "/", " ", "h", "t", "t", "p", "s", ":", "/", "/", "g", "i", "t", "h", "u", "b", ".", "c", "o", "m", "/", "L", "u", "n", "a", "r", "E", "C", "L", "/", "L", "u", "n", "a", "r", "L", "o", "g">>

BannerBlock == BannerLine1 \o <<LF>> \o BannerLine2

\* The banner block between two line breaks.
BlockBetweenBreaks == <<LF>> \o BannerBlock \o <<LF>>

\* The literal had it been written without the line breaks around it, and
\* without the leading one only.
target_marker_noBreaks == BannerBlock

target_marker_noLeadingBreak == BannerBlock \o <<LF>>

\* The triple-quoted literal of merge_files.py:19-22: it opens and closes
\* with a line break.
target_marker == <<LF>> \o BannerLine1 \o <<LF>> \o BannerLine2 \o <<LF>>

\* os.linesep of the platform the tool runs on (POSIX).
linesep == LF

SourcePath == "../include/lunar_log.hpp"
TargetPath == "../single_include/lunar_log.hpp"
Paths == {SourcePath, TargetPath}

\* ------------------------------------------------------- bounds and inputs
\* Files are built from at most this many pieces.
MaxSourcePieces == 3
MaxTargetPieces == 2
\* Successful calls in a row are counted up to this many.
MaxStreak == 2

\* The pieces the files on disk are put together from.
SourcePieces == {IncludeToken, <<LF>>, <<"x">>}
\* The banner as a checkout with "\r\n" line ends stores it.
MarkerCRLF ==
  <<CR, LF>> \o BannerLine1 \o <<CR, LF>> \o BannerLine2 \o <<CR, LF>>

TargetPieces == {BlockBetweenBreaks, MarkerCRLF, BannerBlock, <<LF>>, <<"x">>}

RECURSIVE Concats(_, _)
Concats(P, n) ==
  IF n = 0 THEN {<< >>}
  ELSE LET S == Concats(P, n - 1) IN S \cup {s \o p : s \in S, p \in P}

SourceFiles == Concats(SourcePieces, MaxSourcePieces)
TargetFiles == Concats(TargetPieces, MaxTargetPieces)

\* ------------------------------------------------------- python primitives
Min(a, b) == IF a < b THEN a ELSE b

\* str.find(sub): lowest 0-based index at which sub occurs in s, else -1.
OccursAt(s, sub, i) ==
  /\ i + Len(sub) <= Len(s)
  /\ \A j \in 1..Len(sub) : s[i + j] = sub[j]

\* Lookups that answer 0 on a miss, and that answer the highest index.
Find_missIsZero(s, sub) ==
  LET hits == {i \in 0..(Len(s) - Len(sub)) : OccursAt(s, sub, i)}
  IN IF hits = {} THEN 0 ELSE CHOOSE i \in hits : \A j \in hits : i <= j

Find_last(s, sub) ==
  LET hits == {i \in 0..(Len(s) - Len(sub)) : OccursAt(s, sub, i)}
  IN IF hits = {} THEN -1 ELSE CHOOSE i \in hits : \A j \in hits : i >= j

Find(s, sub) ==
  LET hits == {i \in 0..(Len(s) - Len(sub)) : OccursAt(s, sub, i)}
  IN IF hits = {} THEN -1 ELSE CHOOSE i \in hits : \A j \in hits : i <= j

\* s[a:] and s[:b] for a, b >= 0; an index past the end is clamped.
SliceFrom(s, a) == SubSeq(s, Min(a, Len(s)) + 1, Len(s))

\* Cuts that stop one character early, and that do not cut at all.
SliceTo_shortByOne(s, b) == SubSeq(s, 1, Min(b, Len(s)) - 1)

SliceTo_keepsAll(s, b) == s

SliceTo(s, b) == SubSeq(s, 1, Min(b, Len(s)))

\* file.read() in text mode with the default newline=None: "\r\n" and a
\* lone "\r" are both read as "\n"; a file without "\r" reads as stored.
Dropped == "dropped"

ReadText(b) ==
  IF \A i \in 1..Len(b) : b[i] # CR
  THEN b
  ELSE LET translated == [i \in 1..Len(b) |->
                            IF b[i] = CR THEN LF
                            ELSE IF b[i] = LF /\ i > 1 /\ b[i - 1] = CR THEN Dropped
                            ELSE b[i]]
           Kept(c) == c # Dropped
       IN SelectSeq(translated, Kept)

\* file.write() in text mode with the default newline=None: every "\n" is
\* written as os.linesep.
WriteText(t) == [i \in 1..Len(t) |-> IF t[i] = LF THEN linesep ELSE t[i]]

\* What a write that raises can leave in the file that open(..., 'w') has
\* already truncated: nothing, or a proper prefix of the data.
PartialWrites(data) ==
  {SubSeq(data, 1, n) : n \in {0, Len(data) \div 2, Len(data) - 1} \cap Nat}

\* A write that lands in the source file whatever path it is handed.
WriteFile_toSource(f, path, data) == [f EXCEPT ![SourcePath] = data]

\* open(path, 'w') followed by write(data) and the close of the with block.
WriteFile(f, path, data) == [f EXCEPT ![path] = data]

\* ------------------------------------------------------------- merge_files
SuccessMessage == <<"Files merged successfully.">>
ErrorMessage(detail) == <<"An error occurred: ">> \o detail

\* The end state of one run of the body: the file system it leaves, the
\* exception it raised ("none" when it ran to line 35), the statement that
\* raised it, and the locals computed on the way.
Outcome(files, raised, at, detail, index, copied, opened) ==
  [fs |-> files,
   raised |-> raised,
   at |-> at,
   printed |-> IF raised = "none" THEN SuccessMessage ELSE ErrorMessage(detail),
   include_index |-> index,
   content_to_copy |-> copied,
   opened_w |-> opened]

\* Every way one call on file system f can end.  Each open, read and write
\* may raise OSError; the two lookups raise ValueError when they miss.
Outcomes(f, source_file_path, target_file_path) ==
  {Outcome(f, "OSError", "read_source", <<source_file_path>>, -1, << >>, FALSE)}
  \cup
  LET source_content == ReadText(f[source_file_path])
      include_index == Find(source_content, IncludeToken)
  IN
  IF include_index = -1
  THEN {Outcome(f, "ValueError", "find_include",
                <<"#include <nlohmann/json.hpp> not found in ", source_file_path>>,
                include_index, << >>, FALSE)}
  ELSE
  LET content_to_copy == SliceFrom(source_content, include_index + Len(IncludeLine))
  IN
  {Outcome(f, "OSError", "read_target", <<target_file_path>>,
           include_index, content_to_copy, FALSE)}
  \cup
  LET target_content == ReadText(f[target_file_path])
      target_marker_index == Find(target_content, target_marker)
  IN
  IF target_marker_index = -1
  THEN {Outcome(f, "ValueError", "find_marker",
                <<"Marker not found in ", target_file_path>>,
                include_index, content_to_copy, FALSE)}
  ELSE
  LET new_target_content ==
        SliceTo(target_content, target_marker_index + Len(target_marker)) \o content_to_copy
      data == WriteText(new_target_content)
  IN
  {Outcome(f, "OSError", "open_write", <<target_file_path>>,
           include_index, content_to_copy, FALSE)}
  \cup
  {Outcome(WriteFile(f, target_file_path, p), "OSError", "write", <<target_file_path>>,
           include_index, content_to_copy, TRUE) : p \in PartialWrites(data)}
  \cup
  {Outcome(WriteFile(f, target_file_path, data), "none", "end", << >>,
           include_index, content_to_copy, TRUE)}

NoCall ==
  [source_file_path |-> "", target_file_path |-> "",
   raised |-> "idle", at |-> "idle", printed |-> << >>, ret |-> "None",
   include_index |-> -1, content_to_copy |-> << >>, opened_w |-> FALSE,
   pre |-> [p \in Paths |-> << >>]]

\* One call of merge_files.  Every exception is caught by the handler of
\* line 36, which prints it; the function then returns None either way.
merge_files(source_file_path, target_file_path) ==
  \E r \in Outcomes(fs, source_file_path, target_file_path) :
    /\ fs' = r.fs
    /\ last' = [source_file_path |-> source_file_path,
                target_file_path |-> target_file_path,
                raised |-> r.raised,
                at |-> r.at,
                printed |-> r.printed,
                ret |-> "None",
                include_index |-> r.include_index,
                content_to_copy |-> r.content_to_copy,
                opened_w |-> r.opened_w,
                pre |-> fs]
    /\ streak' = IF r.raised = "none" THEN Min(streak + 1, MaxStreak) ELSE 0

\* The script's entry point (lines 40-41).
main == merge_files(SourcePath, TargetPath)

Init ==
  /\ fs \in {[p \in Paths |-> IF p = SourcePath THEN s ELSE t] :
               s \in SourceFiles, t \in TargetFiles}
  /\ last = NoCall
  /\ streak = 0

Next == main

Spec == Init /\ [][Next]_vars

\* ------------------------------------------------------------- vocabulary
\* How the properties below speak of texts; none of this is used by the
\* actions above.
IsAt(s, sub, i) ==
  /\ i >= 0
  /\ i + Len(sub) <= Len(s)
  /\ \A k \in 1..Len(sub) : s[i + k] = sub[k]

Occurrences(s, sub) == {i \in 0..(Len(s) - Len(sub)) : IsAt(s, sub, i)}

Has(s, sub) == Occurrences(s, sub) # {}

Lowest(S) == CHOOSE i \in S : \A j \in S : i <= j

First(s, sub) == Lowest(Occurrences(s, sub))

Suffix(s, n) == [i \in 1..(Len(s) - n) |-> s[n + i]]

Prefix(s, n) == [i \in 1..n |-> s[i]]

Called == last.at # "idle"
Succeeded == last.raised = "none"
SourceText == ReadText(last.pre[last.source_file_path])
TargetText == ReadText(last.pre[last.target_file_path])
TargetBefore == last.pre[last.target_file_path]
TargetAfter == fs[last.target_file_path]
\* The call got as far as computing content_to_copy.
PayloadComputed == last.at \in {"read_target", "find_marker", "open_write", "write", "end"}
\* No open, read or write raised.
NoIOFault == last.at \in {"find_include", "find_marker", "end"}

\* --------------------------------------------------------------------- C1
\* C1: after a successful merge the target file is the original target text
\* up to the end of its first marker, character for character, followed by
\* the payload and nothing else: the old tail is gone and nothing is added
\* or lost where the two parts meet.
C1_SpliceExact ==
  Succeeded =>
    LET t == TargetText
        payload == last.content_to_copy
        markers == Occurrences(t, BlockBetweenBreaks)
        j == Lowest(markers) + Len(BlockBetweenBreaks)
    IN /\ markers # {}
       /\ Len(TargetAfter) = j + Len(payload)
       /\ \A i \in 1..j : TargetAfter[i] = t[i]
       /\ \A i \in 1..Len(payload) : TargetAfter[j + i] = payload[i]

\* A merge that dropped a non-empty old tail and appended a non-empty
\* payload.
C1_Witness ==
  /\ Succeeded
  /\ Len(last.content_to_copy) > 0
  /\ Len(TargetText) > Len(TargetAfter) - Len(last.content_to_copy)

\* --------------------------------------------------------------------- C2
\* The source text after the line that holds the token: what follows the
\* first line break at or after the token's end, or nothing when no line
\* break follows.
AfterTokenLine(s) ==
  LET e == First(s, IncludeToken) + Len(IncludeToken)
      breaks == {n \in (e + 1)..Len(s) : s[n] = LF}
  IN IF breaks = {} THEN << >>
     ELSE Suffix(s, CHOOSE n \in breaks : \A m \in breaks : n <= m)

\* C2: for a source text holding the token exactly once, the payload is the
\* source text from the end of the token's line to the end of the text,
\* whatever follows the token on its line.
C2_PayloadIsRestAfterTokenLine ==
  (PayloadComputed /\ Cardinality(Occurrences(SourceText, IncludeToken)) = 1)
    => last.content_to_copy = AfterTokenLine(SourceText)

\* --------------------------------------------------------------------- C3
\* C3 as stated: after two merges in a row the payload stands twice after
\* the marker, that is, the second run appended the payload to what the
\* first run left.
C3_PayloadTwice ==
  streak >= 2 => TargetAfter = TargetBefore \o last.content_to_copy

\* C3 amended: the second of two merges in a row leaves the target exactly
\* as the first left it, with the payload once after the marker.
C3_SecondRunChangesNothing ==
  streak >= 2 =>
    /\ TargetAfter = TargetBefore
    /\ LET j == First(TargetAfter, BlockBetweenBreaks) + Len(BlockBetweenBreaks)
       IN Suffix(TargetAfter, j) = last.content_to_copy

\* A second successful run in a row with a non-empty payload.
C3_Witness == streak >= 2 /\ Len(last.content_to_copy) > 0

\* --------------------------------------------------------------------- C4
\* The complete new content for the target the call started from.
CompleteNewContent ==
  Prefix(TargetText, First(TargetText, BlockBetweenBreaks) + Len(BlockBetweenBreaks))
    \o last.content_to_copy

\* C4: however a call ends, an I/O failure at any step included, the target
\* file holds its original content or the complete new content, never
\* something partial, and it is opened for writing only once the new
\* content is computed.
C4_NoPartialTarget ==
  Called =>
    /\ \/ TargetAfter = TargetBefore
       \/ (PayloadComputed /\ Has(TargetText, BlockBetweenBreaks)
            /\ TargetAfter = CompleteNewContent)
    /\ last.opened_w => (PayloadComputed /\ Has(TargetText, BlockBetweenBreaks))

\* --------------------------------------------------------------------- C5
\* C5: when the source text lacks the token, the call ends in the
\* not-found error naming the token and the source path, not in success,
\* the target is never opened for writing and every file is as before.
C5_MissingTokenFails ==
  (Called /\ last.at # "read_source" /\ ~Has(SourceText, IncludeToken)) =>
    /\ last.at = "find_include"
    /\ last.raised = "ValueError"
    /\ last.printed = <<"An error occurred: ",
                        "#include <nlohmann/json.hpp> not found in ",
                        last.source_file_path>>
    /\ last.printed # SuccessMessage
    /\ ~last.opened_w
    /\ fs = last.pre

\* A call on a source without the token and a target that has the marker.
C5_Witness ==
  /\ Called
  /\ last.at = "find_include"
  /\ ~Has(SourceText, IncludeToken)
  /\ Has(TargetText, BlockBetweenBreaks)

\* --------------------------------------------------------------------- C6
\* C6: when the source text has the token and the target text lacks the
\* marker, the call ends in the not-found error naming the target path, not
\* in success, and every file is as before.
C6_MissingMarkerFails ==
  (Called /\ last.at \notin {"read_source", "read_target"}
     /\ Has(SourceText, IncludeToken) /\ ~Has(TargetText, BlockBetweenBreaks)) =>
    /\ last.at = "find_marker"
    /\ last.raised = "ValueError"
    /\ last.printed = <<"An error occurred: ", "Marker not found in ",
                        last.target_file_path>>
    /\ last.printed # SuccessMessage
    /\ ~last.opened_w
    /\ fs = last.pre

\* A call on a source with a non-empty payload and a non-empty target
\* without the marker.
C6_Witness ==
  /\ Called
  /\ last.at = "find_marker"
  /\ Len(last.content_to_copy) > 0
  /\ Len(TargetBefore) > 0
  /\ ~Has(TargetText, BlockBetweenBreaks)

\* --------------------------------------------------------------------- C7
\* C7 as stated: with no I/O failure and the token in the source, the call
\* succeeds exactly when the target text contains the two banner lines,
\* wherever they stand.
C7_SucceedsIffBlock ==
  (NoIOFault /\ Has(SourceText, IncludeToken)) =>
    (Succeeded <=> Has(TargetText, BannerBlock))

\* C7 amended: with no I/O failure and the token in the source, the call
\* succeeds exactly when the target text contains the two banner lines
\* with a line break right before the first and right after the second.
C7_SucceedsIffBlockBetweenBreaks ==
  (NoIOFault /\ Has(SourceText, IncludeToken)) =>
    /\ Succeeded <=> Has(TargetText, BlockBetweenBreaks)
    /\ ~Succeeded => (last.raised = "ValueError" /\ last.at = "find_marker")

\* A target that holds the two banner lines, but not between line breaks,
\* and is reported as having no marker.
C7_Witness ==
  /\ Called
  /\ last.at = "find_marker"
  /\ Has(TargetText, BannerBlock)
  /\ ~Has(TargetText, BlockBetweenBreaks)

\* --------------------------------------------------------------------- C8
\* What a call that succeeded hands back to its caller.
ReturnedOnSuccess == "None"

\* C8: a failing call ends in a result the caller can tell from success,
\* and its message names the file and the token or marker involved.
C8_FailureIsSignalled ==
  (Called /\ ~Succeeded) =>
    /\ last.ret # ReturnedOnSuccess
    /\ \E i \in 1..Len(last.printed) :
         last.printed[i] \in {last.source_file_path, last.target_file_path}
    /\ \E i \in 1..Len(last.printed) :
         last.printed[i] \in {"#include <nlohmann/json.hpp> not found in ",
                              "Marker not found in "}

\* --------------------------------------------------------------------- C9
\* C9: a call, failed or not, changes no file but the one at the target
\* path; the source file holds what it held before.
C9_OnlyTargetChanges ==
  Called =>
    /\ \A p \in Paths \ {last.target_file_path} : fs[p] = last.pre[p]
    /\ last.source_file_path # last.target_file_path
         => fs[last.source_file_path] = last.pre[last.source_file_path]

\* A call that rewrote the target with different content.
C9_Witness ==
  /\ Called
  /\ last.opened_w
  /\ TargetAfter # TargetBefore
  /\ Len(last.pre[last.source_file_path]) > 0

====
